---- MODULE Spec2Model ----
(***************************************************************************)
(* Salesforce MCP server (src/main.py): a lazily created, module-level     *)
(* Salesforce client shared by eight tool handlers, and main(), which      *)
(* tries to create the client before it starts serving.                    *)
(*                                                                         *)
(* The processes are main() and the worker threads in which the hosting    *)
(* server runs tool invocations.  A process is preempted where it blocks:  *)
(* get_client() is a test of the global sf_client, then the construction   *)
(* (one authentication call) and the store, then `return sf_client`; a     *)
(* handler that finds a client goes through get_client() and its one       *)
(* client call in a single step, the call being its only visible effect.   *)
(*                                                                         *)
(* client.py (class SalesforceClient) and the remote CRM are not part of   *)
(* the sources; they are modelled from the specification (sections 3, 4.2, *)
(* 7 and 8) and are marked as such where they are defined.                 *)
(***************************************************************************)
EXTENDS Integers, Sequences, FiniteSets, TLC

\* ------------------------------------------------------------------ bounds

\* Largest number of account records the remote CRM accepts in a run.
MaxIds == 1

\* Largest explicit `limit` argument a caller passes.
MaxLimit == 1

\* Default of every tool's `limit` parameter.
DefaultLimit == 10

\* Worker threads of the hosting server that run tool invocations.
Workers == {"w1", "w2"}

Procs == {"main"} \cup Workers

\* sf_client = None
None == 0

Tools ==
    {"get_accounts", "get_account_by_id", "search_accounts", "create_account",
     "update_account", "delete_account", "get_account_opportunities",
     "get_account_contacts"}

\* ------------------------------------------------------- values and inputs

\* Field values are strings, kept as sequences of characters; <<>> is an
\* unset field.
Null == <<>>
Values == {<<"a">>, <<"b", "a">>}
Terms == {<<"a">>, <<"b">>}
FieldNames == {"Name", "Phone"}

\* account_data dictionaries a caller submits.
AccountData ==
    {[Name |-> <<"a">>], [Phone |-> <<"a">>],
     [Name |-> <<"b", "a">>, Phone |-> <<"a">>]}

\* An optional argument is <<>> when omitted and <<x>> when given.
LimitArgs == {<<>>} \cup {<<n>> : n \in 0..MaxLimit}
FieldsArgs == {<<>>, <<{"Name"}>>}
Ids == 1..MaxIds

NoData == [Name |-> Null, Phone |-> Null]
NoArgs == [id |-> 0, data |-> NoData, limit |-> <<>>, term |-> <<>>, fields |-> <<>>]

\* The argument tuples each tool is invoked with.
ArgsOf(t) ==
    CASE t = "get_accounts" ->
           {[NoArgs EXCEPT !.limit = l, !.fields = f] : l \in LimitArgs, f \in FieldsArgs}
      [] t = "get_account_by_id" ->
           {[NoArgs EXCEPT !.id = i, !.fields = f] : i \in Ids, f \in FieldsArgs}
      [] t = "search_accounts" ->
           {[NoArgs EXCEPT !.term = s, !.limit = l] : s \in Terms, l \in LimitArgs}
      [] t = "create_account" ->
           {[NoArgs EXCEPT !.data = d] : d \in AccountData}
      [] t = "update_account" ->
           {[NoArgs EXCEPT !.id = i, !.data = d] : i \in Ids, d \in AccountData}
      [] t = "delete_account" ->
           {[NoArgs EXCEPT !.id = i] : i \in Ids}
      [] OTHER ->
           {[NoArgs EXCEPT !.id = i, !.limit = l] : i \in Ids, l \in LimitArgs}

Ok(v) == [kind |-> "ok", val |-> v]
Err(e) == [kind |-> "err", val |-> e]
NoOutcome == [kind |-> "none", val |-> "none"]

\* ------------------------------------------------------------------- state

VARIABLES
    creds,      \* the credentials are present in the environment
    sf_client,  \* the module-level client: None or the instance stored
    created,    \* SalesforceClient instances constructed so far
    pc,         \* each process's position
    client,     \* the value get_client() returned to the process
    startup,    \* what main() printed about the client: pending, ok, warned
    accounts,   \* the remote CRM's Account table, indexed by Id
    last,       \* the most recent finished tool invocation
    delOk,      \* the ids for which delete_account returned true
    track       \* one earlier create or update that returned, and whether
                \* its record was updated or deleted since

vars ==
    <<creds, sf_client, created, pc, client, startup, accounts, last, delOk,
      track>>

\* ------------------------------------------- SalesforceClient and the CRM
\* client.py is not among the sources.  Its operations follow the
\* specification: each performs one authenticated call against the remote
\* Account table and returns the parsed result or raises.

Contains(t, s) ==
    \E i \in 0..(Len(s) - Len(t)) : SubSeq(s, i + 1, i + Len(t)) = t

Take(s, n) == SubSeq(s, 1, IF n < Len(s) THEN n ELSE Len(s))

Live(accts, i) == i \in 1..Len(accts) /\ accts[i].live

LiveIds(accts) ==
    SelectSeq([i \in 1..Len(accts) |-> i], LAMBDA i : accts[i].live)

\* The record the client returns for account i, holding the fields asked for.
Rec(accts, i, fields) ==
    LET has == IF fields = <<>> THEN FieldNames ELSE fields[1]
    IN  [Id |-> i, has |-> has,
         Name |-> IF "Name" \in has THEN accts[i].Name ELSE Null,
         Phone |-> IF "Phone" \in has THEN accts[i].Phone ELSE Null]

Recs(accts, ids, fields) == [k \in 1..Len(ids) |-> Rec(accts, ids[k], fields)]

Matches(accts, i, term) ==
    \E f \in FieldNames : Contains(term, accts[i][f])

\* Contacts and opportunities cannot be changed through the adapter: every
\* live account has the same two of each.
Related(accts, i) ==
    IF Live(accts, i)
    THEN <<[Id |-> 1, AccountId |-> i], [Id |-> 2, AccountId |-> i]>>
    ELSE <<>>

Stored(d) ==
    [live |-> TRUE,
     Name |-> IF "Name" \in DOMAIN d THEN d.Name ELSE Null,
     Phone |-> IF "Phone" \in DOMAIN d THEN d.Phone ELSE Null]

Merged(r, d) ==
    [live |-> TRUE,
     Name |-> IF "Name" \in DOMAIN d THEN d.Name ELSE r.Name,
     Phone |-> IF "Phone" \in DOMAIN d THEN d.Phone ELSE r.Phone]

Gone == [live |-> FALSE, Name |-> Null, Phone |-> Null]

\* One client operation: its outcome and the Account table after it.
\* `fault` is a transport or authentication failure of this call, `ack` the
\* value the client's update and delete return.
ClientOp(req, accts, fault, ack) ==
    LET same(o) == [out |-> o, accts |-> accts]
    IN  CASE fault -> same(Err("NetworkError"))
          [] req.op = "get_accounts" ->
               same(Ok(Recs(accts, Take(LiveIds(accts), req.limit), req.fields)))
          [] req.op = "get_account_by_id" ->
               IF Live(accts, req.id)
               THEN same(Ok(Rec(accts, req.id, req.fields)))
               ELSE same(Err("NotFound"))
          [] req.op = "search_accounts" ->
               same(Ok(Recs(accts,
                            Take(SelectSeq(LiveIds(accts),
                                           LAMBDA i : Matches(accts, i, req.term)),
                                 req.limit),
                            <<>>)))
          [] req.op = "create_account" ->
               IF "Name" \notin DOMAIN req.data
               THEN same(Err("ValidationError"))
               ELSE IF Len(accts) >= MaxIds
               THEN same(Err("StorageLimit"))
               ELSE [out |-> Ok(Len(accts) + 1),
                     accts |-> Append(accts, Stored(req.data))]
          [] req.op = "update_account" ->
               IF Live(accts, req.id)
               THEN [out |-> Ok(ack),
                     accts |-> [accts EXCEPT ![req.id] = Merged(@, req.data)]]
               ELSE same(Err("NotFound"))
          [] req.op = "delete_account" ->
               IF Live(accts, req.id)
               THEN [out |-> Ok(ack), accts |-> [accts EXCEPT ![req.id] = Gone]]
               ELSE same(Err("NotFound"))
          [] OTHER ->
               same(Ok(Take(Related(accts, req.id), req.limit)))

\* What the client's update and delete may return.
ClientAcks == BOOLEAN

AcksOf(t) == IF t \in {"update_account", "delete_account"} THEN ClientAcks ELSE {TRUE}

\* SalesforceClient(auto_auth=True): the constructor authenticates with the
\* credentials of the environment.  Without them it raises; with them it
\* succeeds (`ok`) or fails on the authentication call.
NewClient(hasCreds, ok) ==
    IF ~hasCreds THEN Err("CredentialsError")
    ELSE IF ~ok THEN Err("AuthError")
    ELSE Ok("client")

\* ------------------------------------------------------- the tool handlers

\* A parameter `limit: int = 10`.
LimitOf(l) == IF l = <<>> THEN DefaultLimit ELSE l[1]

NoReq == [op |-> "none", id |-> 0, data |-> NoData, limit |-> 0, term |-> <<>>,
          fields |-> <<>>]

\* The client call each handler makes with its arguments.
get_accounts(a) ==
    [NoReq EXCEPT !.op = "get_accounts", !.limit = LimitOf(a.limit), !.fields = a.fields]

\* Variant: the handler asks for the Name field whatever `fields` is.
get_account_by_id_name_only(a) ==
    [NoReq EXCEPT !.op = "get_account_by_id", !.id = a.id, !.fields = <<{"Name"}>>]

get_account_by_id(a) ==
    [NoReq EXCEPT !.op = "get_account_by_id", !.id = a.id, !.fields = a.fields]

\* Variant: the handler asks the client for one record more than `limit`.
search_accounts_one_more(a) ==
    [NoReq EXCEPT !.op = "search_accounts", !.term = a.term,
                  !.limit = LimitOf(a.limit) + 1]

search_accounts(a) ==
    [NoReq EXCEPT !.op = "search_accounts", !.term = a.term, !.limit = LimitOf(a.limit)]

create_account(a) ==
    [NoReq EXCEPT !.op = "create_account", !.data = a.data]

\* Variant: the handler forwards only the Name of account_data, if it has one.
update_account_name_only(a) ==
    [NoReq EXCEPT !.op = "update_account", !.id = a.id,
                  !.data = IF "Name" \in DOMAIN a.data
                           THEN [Name |-> a.data.Name]
                           ELSE a.data]

update_account(a) ==
    [NoReq EXCEPT !.op = "update_account", !.id = a.id, !.data = a.data]

delete_account(a) ==
    [NoReq EXCEPT !.op = "delete_account", !.id = a.id]

get_account_opportunities(a) ==
    [NoReq EXCEPT !.op = "get_account_opportunities", !.id = a.id,
                  !.limit = LimitOf(a.limit)]

get_account_contacts(a) ==
    [NoReq EXCEPT !.op = "get_account_contacts", !.id = a.id, !.limit = LimitOf(a.limit)]

Request(t, a) ==
    CASE t = "get_accounts" -> get_accounts(a)
      [] t = "get_account_by_id" -> get_account_by_id(a)
      [] t = "search_accounts" -> search_accounts(a)
      [] t = "create_account" -> create_account(a)
      [] t = "update_account" -> update_account(a)
      [] t = "delete_account" -> delete_account(a)
      [] t = "get_account_opportunities" -> get_account_opportunities(a)
      [] OTHER -> get_account_contacts(a)

\* Variant: update_account and delete_account catch the client's exception
\* and return False.
ReturnsCaught(t, out) ==
    IF t \in {"update_account", "delete_account"}
    THEN Ok(out.kind = "ok")
    ELSE out

\* Variant: update_account and delete_account return the client's value.
ReturnsClientValue(t, out) == out

\* Variant: update_account and delete_account return True whether or not the
\* client call raised.
ReturnsTrueAlways(t, out) ==
    IF t \in {"update_account", "delete_account"} THEN Ok(TRUE) ELSE out

\* What a handler hands back for the outcome of its client call: an
\* exception is not caught; update_account and delete_account discard the
\* client's value and return True; the others return the client's value.
Returns(t, out) ==
    IF out.kind = "err" THEN out
    ELSE IF t \in {"update_account", "delete_account"} THEN Ok(TRUE)
    ELSE out

\* --------------------------------------------------------------- actions

NoLast ==
    [tool |-> "none", args |-> NoArgs, out |-> NoOutcome, res |-> NoOutcome,
     calls |-> 0]

NoTrack == [kind |-> "none", id |-> 0, data |-> NoData, intact |-> FALSE]

\* The process starts: nothing is initialized, the CRM holds no account.
\* Earlier writes are not observed in runs from here.
Init ==
    /\ creds \in BOOLEAN
    /\ sf_client = None
    /\ created = 0
    /\ pc = [p \in Procs |-> IF p = "main" THEN "start" ELSE "idle"]
    /\ client = [p \in Procs |-> None]
    /\ startup = "pending"
    /\ accounts = <<>>
    /\ last = NoLast
    /\ delOk = {}
    /\ track = [NoTrack EXCEPT !.kind = "off"]

\* The operator puts the credentials into the environment.
Configure ==
    /\ ~creds
    /\ creds' = TRUE
    /\ UNCHANGED <<sf_client, created, pc, client, startup, accounts, last, delOk,
                   track>>

\* main() up to the test in its call of get_client(): sf_client is None
\* when the process starts.
MainStart ==
    /\ pc["main"] = "start"
    /\ sf_client = None
    /\ pc' = [pc EXCEPT !["main"] = "construct"]
    /\ UNCHANGED <<creds, sf_client, created, client, startup, accounts, last, delOk,
                   track>>

\* The hosting server dispatches a tool invocation to a free worker, and the
\* handler's `client = get_client()` finds sf_client None.  Which tool it is
\* and its arguments are immutable inputs that get_client() does not read;
\* they are drawn where they are first used.
Invoke(w) ==
    /\ pc["main"] = "serving"
    /\ pc[w] = "idle"
    /\ sf_client = None
    /\ pc' = [pc EXCEPT ![w] = "construct"]
    /\ UNCHANGED <<creds, sf_client, created, client, startup, accounts, last, delOk,
                   track>>

\* Variant: main() does not catch the exception and the process ends.
RaisedUncaught(p, e) ==
    IF p = "main"
    THEN /\ pc' = [q \in Procs |-> "exited"]
         /\ UNCHANGED <<startup, last>>
    ELSE /\ \E t \in Tools :
              last' = [tool |-> t, args |-> NoArgs, out |-> Err(e), res |-> Err(e),
                       calls |-> 0]
         /\ pc' = [pc EXCEPT ![p] = "idle"]
         /\ UNCHANGED startup

\* An exception e leaves get_client() in process p.  main() catches it,
\* prints the warning and goes on to serve; a handler does not catch it, so
\* the invocation fails with e before any client call.
Raised(p, e) ==
    IF p = "main"
    THEN /\ startup' = "warned"
         /\ pc' = [pc EXCEPT ![p] = "serving"]
         /\ UNCHANGED last
    ELSE /\ \E t \in Tools :
              last' = [tool |-> t, args |-> NoArgs, out |-> Err(e), res |-> Err(e),
                       calls |-> 0]
         /\ pc' = [pc EXCEPT ![p] = "idle"]
         /\ UNCHANGED startup

\* Variant: the global is assigned an unauthenticated client when the
\* constructor's authentication fails, and get_client() returns it.
ConstructSilent(p) ==
    /\ pc[p] = "construct"
    /\ sf_client' = created + 1
    /\ created' = created + 1
    /\ pc' = [pc EXCEPT ![p] = "ret"]
    /\ UNCHANGED <<creds, client, startup, accounts, last, delOk, track>>

\* get_client(): `sf_client = SalesforceClient(auto_auth=True)`.  The global
\* is assigned only when the constructor returns.
Construct(p) ==
    /\ pc[p] = "construct"
    /\ \E ok \in BOOLEAN :
         LET made == NewClient(creds, ok)
         IN  IF made.kind = "ok"
             THEN /\ sf_client' = created + 1
                  /\ created' = created + 1
                  /\ pc' = [pc EXCEPT ![p] = "ret"]
                  /\ UNCHANGED <<startup, last>>
             ELSE /\ Raised(p, made.val)
                  /\ UNCHANGED <<sf_client, created>>
    /\ UNCHANGED <<creds, client, accounts, delOk, track>>

\* Variant: get_client() hands the client over and clears the global, so
\* that the next call connects again.
GetClientReturnReset(p) ==
    /\ pc[p] = "ret"
    /\ client' = [client EXCEPT ![p] = sf_client]
    /\ sf_client' = None
    /\ IF p = "main"
       THEN /\ startup' = "ok"
            /\ pc' = [pc EXCEPT ![p] = "serving"]
       ELSE /\ pc' = [pc EXCEPT ![p] = "call"]
            /\ UNCHANGED startup
    /\ UNCHANGED <<creds, created, accounts, last, delOk, track>>

\* get_client(): `return sf_client` after the store.  main() prints that the
\* client is initialized and goes on to serve; a handler goes on to its
\* client call.
GetClientReturn(p) ==
    /\ pc[p] = "ret"
    /\ client' = [client EXCEPT ![p] = sf_client]
    /\ IF p = "main"
       THEN /\ startup' = "ok"
            /\ pc' = [pc EXCEPT ![p] = "serving"]
       ELSE /\ pc' = [pc EXCEPT ![p] = "call"]
            /\ UNCHANGED startup
    /\ UNCHANGED <<creds, sf_client, created, accounts, last, delOk, track>>

\* The observed earlier write after a finished invocation: it stays, losing
\* `intact` when this invocation updated or deleted its record, or it is
\* replaced by this invocation's create or update, if that returned.
Tracked(t, a, out, res) ==
    LET wrote == t \in {"update_account", "delete_account"} /\ out.kind = "ok"
        kept == IF wrote /\ track.kind \in {"create", "update"} /\ track.id = a.id
                THEN [track EXCEPT !.intact = FALSE]
                ELSE track
        new == IF track.kind = "off" \/ res.kind # "ok" THEN {}
               ELSE IF t = "create_account"
               THEN {[kind |-> "create", id |-> res.val, data |-> a.data, intact |-> TRUE]}
               ELSE IF t = "update_account" /\ res.val = TRUE
               THEN {[kind |-> "update", id |-> a.id, data |-> a.data, intact |-> TRUE]}
               ELSE {}
    IN  {kept} \cup new

\* A handler from the point where get_client() has a client to return.  An
\* invocation dispatched to a free worker that finds sf_client set passes
\* get_client() without blocking and leaves the worker free again; one whose
\* get_client() has constructed the client goes on from there.  Then one
\* client call with the handler's arguments, and the handler's return.
Handler(t) ==
    /\ \/ /\ pc["main"] = "serving"
          /\ sf_client # None
          /\ \E w \in Workers : pc[w] = "idle"
          /\ UNCHANGED <<pc, client>>
       \/ \E w \in Workers :
            /\ pc[w] = "call"
            /\ pc' = [pc EXCEPT ![w] = "idle"]
            /\ client' = [client EXCEPT ![w] = None]
    /\ \E a \in ArgsOf(t), fault \in BOOLEAN, ack \in AcksOf(t) :
         LET done == ClientOp(Request(t, a), accounts, fault, ack)
             res == Returns(t, done.out)
         IN  /\ accounts' = done.accts
             /\ last' = [tool |-> t, args |-> a, out |-> done.out, res |-> res,
                         calls |-> 1]
             /\ delOk' = IF t = "delete_account" /\ res.kind = "ok" /\ res.val = TRUE
                         THEN delOk \cup {a.id}
                         ELSE delOk
             /\ track' \in Tracked(t, a, done.out, res)
    /\ UNCHANGED <<creds, sf_client, created, startup>>

GetAccounts == Handler("get_accounts")
GetAccountById == Handler("get_account_by_id")
SearchAccounts == Handler("search_accounts")
CreateAccount == Handler("create_account")
UpdateAccount == Handler("update_account")
DeleteAccount == Handler("delete_account")
GetAccountOpportunities == Handler("get_account_opportunities")
GetAccountContacts == Handler("get_account_contacts")

\* The tool invocations.
Serve ==
    \/ GetAccounts
    \/ GetAccountById
    \/ SearchAccounts
    \/ CreateAccount
    \/ UpdateAccount
    \/ DeleteAccount
    \/ GetAccountOpportunities
    \/ GetAccountContacts

Next ==
    \/ Configure
    \/ MainStart
    \/ \E p \in Procs : Construct(p)
    \/ \E p \in Procs : GetClientReturn(p)
    \/ \E w \in Workers : Invoke(w)
    \/ Serve

\* The server from the start of the process.
Spec == Init /\ [][Next]_vars

\* The server once main() has initialized the client and serves: no process
\* is inside get_client() and none enters its construction again, so the
\* tool invocations are the only steps.  Earlier writes are observed.
InitServing ==
    /\ creds = TRUE
    /\ sf_client = 1
    /\ created = 1
    /\ pc = [p \in Procs |-> IF p = "main" THEN "serving" ELSE "idle"]
    /\ client = [p \in Procs |-> IF p = "main" THEN 1 ELSE None]
    /\ startup = "ok"
    /\ accounts = <<>>
    /\ last = NoLast
    /\ delOk = {}
    /\ track = NoTrack

SpecServing == InitServing /\ [][Serve]_vars

\* ---------------------------------------------------------------- claims

\* The record carries every field value of the dictionary d.
Reflects(rec, d) == \A f \in DOMAIN d : f \in rec.has /\ rec[f] = d[f]

\* The last finished invocation is get_account_by_id(id) without `fields`.
LastGetOf(id) ==
    /\ last.tool = "get_account_by_id"
    /\ last.calls = 1
    /\ last.args.id = id
    /\ last.args.fields = <<>>

\* A construction by process p fails in this step.
ConstructFails(p) == pc[p] = "construct" /\ pc'[p] \notin {"construct", "ret"}

\* C1: once a construction has succeeded there is one client instance for
\* good: no second instance is ever constructed, and every process that
\* holds a client holds the first one.
C1_SingleInstance ==
    /\ created <= 1
    /\ sf_client \in {None, 1}
    /\ \A p \in Procs : client[p] \in {None, 1}

\* C2: when the construction in main() fails, main() prints the warning and
\* goes on to serve; while there is no client no invocation ends normally,
\* and an invocation whose construction fails ends with that error, frees
\* its worker and leaves the server serving and the other workers alone.
C2_StartupFailureServes ==
    [][/\ ConstructFails("main") => startup' = "warned" /\ pc'["main"] = "serving"
       /\ sf_client' = None => last'.res.kind # "ok"
       /\ \A w \in Workers :
            ConstructFails(w) =>
              /\ last'.res.kind = "err"
              /\ last'.calls = 0
              /\ pc'[w] = "idle"
              /\ pc'["main"] = "serving"
              /\ \A v \in Workers \ {w} : pc'[v] = pc[v]]_vars

C2_Witness ==
    /\ startup = "warned"
    /\ pc["main"] = "serving"
    /\ sf_client = None
    /\ last.res.kind = "err"
    /\ last.calls = 0
    /\ \E w \in Workers : pc[w] = "construct"

\* C3: an invocation in which get_client() or the client call raised ends
\* with that same error, and no invocation makes more than one client call.
C3_ErrorsPropagate ==
    /\ last.calls <= 1
    /\ last.out.kind = "err" =>
         last.res.kind = "err" /\ last.res.val = last.out.val

C3_Witness ==
    /\ last.tool = "delete_account"
    /\ last.calls = 1
    /\ last.out.kind = "err"
    /\ last.out.val = "NotFound"
    /\ last.res.kind = "err"

\* C4 as stated: after create_account(data) returned id and with no update
\* or delete of id since, get_account_by_id(id) succeeds and its record
\* carries every field value of data.
C4_GetAfterCreateSucceeds ==
    (track.kind = "create" /\ track.intact /\ LastGetOf(track.id)) =>
        /\ last.res.kind = "ok"
        /\ Reflects(last.res.val, track.data)

\* C4 as amended: after create_account(data) returned id and with no update
\* or delete of id since, get_account_by_id(id) fails only with the
\* client's transport or authentication error, never because the record is
\* missing, and when it succeeds its record carries every field value of
\* data.
C4_GetAfterCreate ==
    (track.kind = "create" /\ track.intact /\ LastGetOf(track.id)) =>
        IF last.res.kind = "ok"
        THEN Reflects(last.res.val, track.data)
        ELSE last.res.val = "NetworkError"

C4_Witness ==
    /\ track.kind = "create"
    /\ track.intact
    /\ "Phone" \in DOMAIN track.data
    /\ LastGetOf(track.id)
    /\ last.res.kind = "ok"

\* C5 as stated: after update_account(id, data) returned true, a later
\* get_account_by_id(id) returns a record in which every field of data has
\* the updated value.
C5_GetAfterAnyUpdate ==
    (track.kind = "update" /\ LastGetOf(track.id) /\ last.res.kind = "ok") =>
        Reflects(last.res.val, track.data)

\* C5 as amended: after update_account(id, data) returned true and with no
\* update or delete of id since, get_account_by_id(id) fails only with the
\* client's transport or authentication error, and when it returns a record
\* every field of data has the updated value in it.
C5_GetAfterUpdate ==
    (track.kind = "update" /\ track.intact /\ LastGetOf(track.id)) =>
        IF last.res.kind = "ok"
        THEN Reflects(last.res.val, track.data)
        ELSE last.res.val = "NetworkError"

C5_Witness ==
    /\ track.kind = "update"
    /\ track.intact
    /\ "Phone" \in DOMAIN track.data
    /\ LastGetOf(track.id)
    /\ last.res.kind = "ok"

\* C6: once delete_account(id) has returned true, get_account_by_id(id)
\* never returns a record: it fails.
C6_GetAfterDelete ==
    (last.tool = "get_account_by_id" /\ last.args.id \in delOk) =>
        last.res.kind = "err"

C6_Witness ==
    /\ last.tool = "get_account_by_id"
    /\ last.args.id \in delOk
    /\ last.res.kind = "err"
    /\ last.res.val = "NotFound"

\* C7: search_accounts hands search_term and limit to the client as they
\* are, limit being 10 when omitted; it returns at most limit records, and
\* each of them contains the search term in one of its fields.
C7_SearchWithinLimit ==
    /\ \A a \in ArgsOf("search_accounts") :
         /\ search_accounts(a).term = a.term
         /\ search_accounts(a).limit = (IF a.limit = <<>> THEN 10 ELSE a.limit[1])
    /\ (last.tool = "search_accounts" /\ last.res.kind = "ok") =>
         /\ Len(last.res.val) <= (IF last.args.limit = <<>> THEN 10 ELSE last.args.limit[1])
         /\ \A k \in 1..Len(last.res.val) :
              \E f \in FieldNames : Contains(last.args.term, last.res.val[k][f])

\* A search for "b" cut to no record although an account matches it.
C7_Witness ==
    /\ last.tool = "search_accounts"
    /\ last.res.kind = "ok"
    /\ last.args.term = <<"b">>
    /\ last.args.limit = <<0>>
    /\ Len(last.res.val) = 0
    /\ \E i \in 1..Len(accounts) : accounts[i].live /\ Matches(accounts, i, <<"b">>)

\* C8: while the credentials are missing there is no client: get_client()
\* has returned one to no process, main() serves only after its warning,
\* and no invocation has ended normally.
C8_MissingCredentialsReported ==
    ~creds =>
        /\ sf_client = None
        /\ \A p \in Procs : client[p] = None /\ pc[p] \notin {"ret", "call"}
        /\ pc["main"] = "serving" => startup = "warned"
        /\ last.res.kind # "ok"

C8_Witness ==
    /\ ~creds
    /\ pc["main"] = "serving"
    /\ startup = "warned"
    /\ last.res.kind = "err"
    /\ last.res.val = "CredentialsError"

\* C9: update_account and delete_account return true exactly when the
\* client call did not raise, whatever it returned, and never return false.
C9_TrueUnlessRaised ==
    last.tool \in {"update_account", "delete_account"} =>
        /\ last.res.kind = "ok" <=> (last.calls = 1 /\ last.out.kind = "ok")
        /\ last.res.kind = "ok" => last.res.val = TRUE

C9_Witness ==
    /\ last.tool = "update_account"
    /\ last.out.kind = "ok"
    /\ last.out.val = FALSE
    /\ last.res.kind = "ok"
    /\ last.res.val = TRUE

====
